---- MODULE Spec2Model ----
(***************************************************************************)
(* RDS read-replica tag setter: Handler.HandleRequest and its helpers,     *)
(* together with the three AWS capabilities it calls (DescribeDBInstances, *)
(* GetCallerIdentity, AddTagsToResource) and the hosting Lambda runtime.   *)
(***************************************************************************)
EXTENDS Integers, Sequences, FiniteSets, TLC

(***************************************************************************)
(* Bounds of the model.                                                    *)
(***************************************************************************)
\* number of invocation slots (goroutines able to run HandleRequest)
MaxInv == 2
\* the per-resource count of successful tag applications saturates here
MaxApply == 2

Inv == 1 .. MaxInv

(***************************************************************************)
(* Strings.  TLC strings support Len, SubSeq and \o, so the identifiers    *)
(* are real strings and the string functions are computed on them.         *)
(***************************************************************************)
\* the literal of strings.Contains in HandleRequest
AutoscalingLiteral == "application-autoscaling-"

\* strings.Contains(s, sub)
Contains(s, sub) ==
    \E k \in 1 .. (Len(s) - Len(sub) + 1) : SubSeq(s, k, k + Len(sub) - 1) = sub

\* the naming-convention filter of HandleRequest: TRUE when the event is kept
\* variant: the filter only rejects the empty identifier
PassesFilterNonEmpty(dbInstanceID) == dbInstanceID # ""
\* variant: the arguments of strings.Contains are swapped
PassesFilterSwapped(dbInstanceID) == Contains(AutoscalingLiteral, dbInstanceID)
PassesFilter(dbInstanceID) == Contains(dbInstanceID, AutoscalingLiteral)

\* fmt.Sprintf("arn:aws:rds:us-east-1:%s:db:%s", account, dbInstanceID)
\* variant: the ARN of the instance descriptor instead of the built one
BuildArnOfDescriptor(account, dbInstanceID) ==
    "arn:aws:rds:us-east-1:123456789012:db:bender"
BuildArn(account, dbInstanceID) ==
    "arn:aws:rds:us-east-1:" \o account \o ":db:" \o dbInstanceID

(***************************************************************************)
(* JSON documents (the TAGS variable and the event detail) as syntax       *)
(* trees: a kind and, for an object, its members in textual order.         *)
(* kind "empty" is the empty text, "invalid" any text that is not JSON.    *)
(***************************************************************************)
JStr(s) == [kind |-> "string", s |-> s]
JNum == [kind |-> "number", s |-> ""]
JNull == [kind |-> "null", s |-> ""]
Member(k, v) == [key |-> k, val |-> v]
Doc(kind) == [kind |-> kind, members |-> << >>]
Obj(members) == [kind |-> "object", members |-> members]

EmptyMap == << >>

\* m[k] = v of a Go map
MapPut(m, k, v) == [x \in (DOMAIN m) \cup {k} |-> IF x = k THEN v ELSE m[x]]

\* json.Unmarshal of the members of an object into a map[string]string:
\* a string is stored, null stores the zero string, the last duplicate wins.
RECURSIVE DecodeMembers(_, _)
DecodeMembers(members, m) ==
    IF members = << >> THEN m
    ELSE LET h == Head(members)
             v == IF h.val.kind = "string" THEN h.val.s ELSE ""
         IN  DecodeMembers(Tail(members), MapPut(m, h.key, v))

\* a member value that cannot be stored into a Go string
BadStringValue(v) == v.kind \notin {"string", "null"}

\* json.Unmarshal([]byte(tagsEnv), &tagsMap): [err, map]
\* variant: the error of json.Unmarshal is dropped
UnmarshalTagsUnchecked(doc) == [err |-> "", map |-> DecodeMembers(doc.members, EmptyMap)]
\* variant: a mapping without any tag is refused
UnmarshalTagsNonEmpty(doc) ==
    IF doc.kind \in {"empty", "invalid"}
    THEN [err |-> "SyntaxError", map |-> EmptyMap]
    ELSE IF doc.kind # "object"
    THEN [err |-> "UnmarshalTypeError", map |-> EmptyMap]
    ELSE IF \E k \in 1 .. Len(doc.members) : BadStringValue(doc.members[k].val)
    THEN [err |-> "UnmarshalTypeError", map |-> DecodeMembers(doc.members, EmptyMap)]
    ELSE IF doc.members = << >>
    THEN [err |-> "no tags configured", map |-> EmptyMap]
    ELSE [err |-> "", map |-> DecodeMembers(doc.members, EmptyMap)]
UnmarshalTags(doc) ==
    IF doc.kind \in {"empty", "invalid"}
    THEN [err |-> "SyntaxError", map |-> EmptyMap]
    ELSE IF doc.kind = "null"
    THEN [err |-> "", map |-> EmptyMap]
    ELSE IF doc.kind # "object"
    THEN [err |-> "UnmarshalTypeError", map |-> EmptyMap]
    ELSE IF \E k \in 1 .. Len(doc.members) : BadStringValue(doc.members[k].val)
    THEN [err |-> "UnmarshalTypeError", map |-> DecodeMembers(doc.members, EmptyMap)]
    ELSE [err |-> "", map |-> DecodeMembers(doc.members, EmptyMap)]

\* the SourceIdentifier members of an object, in order
RECURSIVE SourceIdMembers(_)
SourceIdMembers(members) ==
    IF members = << >> THEN << >>
    ELSE IF Head(members).key = "SourceIdentifier"
    THEN <<Head(members).val>> \o SourceIdMembers(Tail(members))
    ELSE SourceIdMembers(Tail(members))

\* the string left in EventDetail.SourceIdentifier by the given member values
RECURSIVE LastStringOf(_, _)
LastStringOf(vals, acc) ==
    IF vals = << >> THEN acc
    ELSE LastStringOf(Tail(vals),
                      IF Head(vals).kind = "string" THEN Head(vals).s ELSE acc)

\* json.Unmarshal(event.Detail, &detail): [err, id]
\* variant: a SourceIdentifier of another type than string is skipped, not an error
UnmarshalDetailLenient(doc) ==
    IF doc.kind \in {"empty", "invalid"}
    THEN [err |-> "SyntaxError", id |-> ""]
    ELSE IF doc.kind # "object"
    THEN [err |-> "", id |-> ""]
    ELSE [err |-> "", id |-> LastStringOf(SourceIdMembers(doc.members), "")]
UnmarshalDetail(doc) ==
    IF doc.kind \in {"empty", "invalid"}
    THEN [err |-> "SyntaxError", id |-> ""]
    ELSE IF doc.kind = "null"
    THEN [err |-> "", id |-> ""]
    ELSE IF doc.kind # "object"
    THEN [err |-> "UnmarshalTypeError", id |-> ""]
    ELSE LET vals == SourceIdMembers(doc.members)
         IN  IF \E k \in 1 .. Len(vals) : BadStringValue(vals[k])
             THEN [err |-> "UnmarshalTypeError", id |-> LastStringOf(vals, "")]
             ELSE [err |-> "", id |-> LastStringOf(vals, "")]

(***************************************************************************)
(* Inputs: the process environment, the events and contexts the runtime    *)
(* hands to the handler, and the responses of the AWS capabilities.        *)
(***************************************************************************)
InstanceIds ==
    {"nibbler", "application-autoscaling-fry", "prod-application-autoscaling-fry"}

\* event.Detail
DetailDocs ==
    {Doc("empty"), Doc("invalid"), Doc("null"), Doc("array"), Obj(<< >>),
     Obj(<<Member("SourceIdentifier", JNum)>>),
     Obj(<<Member("SourceIdentifier", JNull)>>),
     Obj(<<Member("SourceIdentifier", JStr(""))>>)}
    \cup {Obj(<<Member("SourceIdentifier", JStr(s))>>) : s \in InstanceIds}

\* os.Getenv("RDS_CLUSTER_IDENTIFIER"): "" when unset or empty
ClusterValues == {"", "planet-express"}

\* os.Getenv("TAGS"), as a document
TagsDocs ==
    {Doc("empty"), Doc("invalid"), Doc("null"), Doc("array"), Obj(<< >>),
     Obj(<<Member("Owner", JStr("farnsworth"))>>),
     Obj(<<Member("Owner", JStr("farnsworth")), Member("Purpose", JStr("delivery"))>>),
     Obj(<<Member("Owner", JStr("mom")), Member("Owner", JStr("farnsworth"))>>),
     Obj(<<Member("Owner", JNum)>>),
     Obj(<<Member("Purpose", JNull)>>)}

Environments == [RDS_CLUSTER_IDENTIFIER : ClusterValues, TAGS : TagsDocs]

\* the context of an invocation: with or without Lambda metadata; done tells
\* whether it was cancelled or its deadline expired (ctx.Err() != nil)
RequestIdOf(i) == "req-" \o ToString(i)
Contexts(i) == {[lambda |-> TRUE, AwsRequestID |-> RequestIdOf(i), done |-> FALSE],
                [lambda |-> FALSE, AwsRequestID |-> "", done |-> FALSE]}
NoContext == [lambda |-> FALSE, AwsRequestID |-> "", done |-> FALSE]

\* *string
NilPtr == [nil |-> TRUE, v |-> ""]
Ptr(s) == [nil |-> FALSE, v |-> s]

\* errors an AWS call can fail with
ErrKinds == {"RequestError", "Throttling"}

\* *rds.DBInstance
NilInstance == [nil |-> TRUE, DBClusterIdentifier |-> NilPtr, DBInstanceArn |-> NilPtr]
DBInstance(c, a) == [nil |-> FALSE, DBClusterIdentifier |-> c, DBInstanceArn |-> a]
DescriptorArn == "arn:aws:rds:us-east-1:123456789012:db:bender"
Instances ==
    {DBInstance(c, a) : c \in {NilPtr, Ptr("planet-express"), Ptr("momcorp")},
                        a \in {NilPtr, Ptr(DescriptorArn)}}

\* what a capability call returns: the error ("" for none), whether the
\* output pointer is nil, and the fields of the output the handler reads
Response(err, nil, insts, acct) ==
    [err |-> err, nil |-> nil, DBInstances |-> insts, Account |-> acct]

\* (*rds.DescribeDBInstancesOutput, error)
DescribeResponses ==
    {Response(e, TRUE, << >>, NilPtr) : e \in ErrKinds}
    \cup {Response("", TRUE, << >>, NilPtr),
          Response("", FALSE, << >>, NilPtr),
          Response("", FALSE, <<NilInstance>>, NilPtr)}
    \cup {Response("", FALSE, <<x>>, NilPtr) : x \in Instances}
    \cup {Response("", FALSE, <<x, y>>, NilPtr) :
             x \in {DBInstance(Ptr("planet-express"), Ptr(DescriptorArn)),
                    DBInstance(Ptr("momcorp"), Ptr(DescriptorArn)),
                    DBInstance(Ptr("planet-express"), NilPtr)},
             y \in {NilInstance, DBInstance(Ptr("planet-express"), Ptr(DescriptorArn)),
                    DBInstance(Ptr("momcorp"), NilPtr)}}

\* (*sts.GetCallerIdentityOutput, error)
IdentityResponses ==
    {Response(e, TRUE, << >>, NilPtr) : e \in ErrKinds}
    \cup {Response("", TRUE, << >>, NilPtr),
          Response("", FALSE, << >>, NilPtr),
          Response("", FALSE, << >>, Ptr("123456789012"))}

\* (*rds.AddTagsToResourceOutput, error); no field of the output is read
AddTagsResponses ==
    {Response(e, TRUE, << >>, NilPtr) : e \in ErrKinds}
    \cup {Response("", FALSE, << >>, NilPtr)}

\* the input of a capability call
Input(id, arn, tags) == [DBInstanceIdentifier |-> id, ResourceName |-> arn, Tags |-> tags]

\* &rds.DescribeDBInstancesInput{DBInstanceIdentifier: aws.String(instanceID)}
\* variant: the identifier is left out, which asks RDS for every instance
DescribeInputUnfiltered(instanceID) == Input("", "", << >>)
DescribeInput(instanceID) == Input(instanceID, "", << >>)

\* the resources AddTagsToResource can be asked to tag
Accounts == {"123456789012"}
Arns == {BuildArn(a, s) : a \in Accounts, s \in InstanceIds} \cup {DescriptorArn}

\* the resources of main.tf that make EventBridge invoke the function, given
\* var.do_not_creat_event_bridge: none of them has a count or a for_each, and
\* main.tf refers to the variable nowhere
EventRule == "aws_cloudwatch_event_rule.read_replica_created"
EventTarget == "aws_cloudwatch_event_target.read_replica_target"
TerraformApply(flag) == {EventRule, "aws_lambda_permission.allow_eventbridge", EventTarget}

\* the tags a replica carries before the handler ever ran
PreexistingTags == [k \in {"Owner", "Name"} |-> IF k = "Owner" THEN "hermes" ELSE "replica"]

(***************************************************************************)
(* Errors and results.                                                     *)
(***************************************************************************)
\* an error value: its outermost message and the AWS error it wraps ("" if none)
Error(msg, cause) == [msg |-> msg, cause |-> cause]
NoError == Error("", "")

Pending == [kind |-> "none", err |-> NoError]
ReturnNil == [kind |-> "nil", err |-> NoError]
ReturnErr(e) == [kind |-> "error", err |-> e]
Panic == [kind |-> "panic", err |-> NoError]

(***************************************************************************)
(* State.                                                                  *)
(***************************************************************************)
VARIABLES
    do_not_creat_event_bridge,  \* the module input of that name
    environ,              \* the process environment (os.Getenv)
    logger,               \* Handler.logger, one field shared by all invocations
    resTags,              \* the tags of every resource, held by RDS
    applied,              \* successful AddTagsToResource calls per resource (saturating)
    pc,                   \* where each invocation stands in HandleRequest
    ctx,                  \* HandleRequest's ctx
    event,                \* HandleRequest's event.Detail
    expectedClusterID,    \* locals of HandleRequest
    tagsMap,
    dbInstanceID,
    clusterID,
    callerIdentityOutput,
    result,               \* what the invocation returned
    calls,                \* the capability calls the invocation made, with their responses
    logs                  \* the log records the invocation wrote

shared == <<do_not_creat_event_bridge, environ, logger, resTags, applied>>
locals == <<ctx, event, expectedClusterID, tagsMap, dbInstanceID, clusterID,
            callerIdentityOutput>>
vars == <<do_not_creat_event_bridge, environ, logger, resTags, applied, pc, ctx, event, expectedClusterID,
          tagsMap, dbInstanceID, clusterID, callerIdentityOutput, result, calls, logs>>

NoIdentity == Response("", TRUE, << >>, NilPtr)

\* NewHandler(logger, rdsClient, stsClient): the logger of main has no fields
NewHandler == << >>

Init ==
    /\ do_not_creat_event_bridge \in BOOLEAN
    /\ environ \in Environments
    /\ logger = NewHandler
    /\ resTags = [a \in Arns |-> PreexistingTags]
    /\ applied = [a \in Arns |-> 0]
    /\ pc = [i \in Inv |-> "idle"]
    /\ ctx = [i \in Inv |-> NoContext]
    /\ event = [i \in Inv |-> Doc("empty")]
    /\ expectedClusterID = [i \in Inv |-> ""]
    /\ tagsMap = [i \in Inv |-> EmptyMap]
    /\ dbInstanceID = [i \in Inv |-> ""]
    /\ clusterID = [i \in Inv |-> ""]
    /\ callerIdentityOutput = [i \in Inv |-> NoIdentity]
    /\ result = [i \in Inv |-> Pending]
    /\ calls = [i \in Inv |-> << >>]
    /\ logs = [i \in Inv |-> << >>]

(***************************************************************************)
(* Helpers of the handler.                                                 *)
(***************************************************************************)
\* loggerFromContext(ctx): the fields of the returned entry
\* variant: without Lambda metadata the entry gets no request id
loggerFromContextBare(c) ==
    IF ~c.lambda
    THEN [version |-> "dev", commit |-> "none", built_at |-> "unknown"]
    ELSE [aws_request_id |-> c.AwsRequestID, function_name |-> "rds-tag-setter",
          function_version |-> "$LATEST", version |-> "dev", commit |-> "none",
          built_at |-> "unknown"]
loggerFromContext(c) ==
    IF ~c.lambda
    THEN [aws_request_id |-> "alien", version |-> "dev", commit |-> "none",
          built_at |-> "unknown"]
    ELSE [aws_request_id |-> c.AwsRequestID, function_name |-> "rds-tag-setter",
          function_version |-> "$LATEST", version |-> "dev", commit |-> "none",
          built_at |-> "unknown"]

\* h.logger.Printf(...) by invocation i: the record carries the fields of the
\* logger that Handler.logger holds at that moment
Printf(i, msg, arg) ==
    logs' = [logs EXCEPT ![i] = Append(@, [fields |-> logger, msg |-> msg, arg |-> arg])]

\* variant: a failed or empty describe yields an empty cluster id and no error
getClusterIdentifierSwallow(id, resp) ==
    IF resp.err # "" \/ resp.nil \/ Len(resp.DBInstances) = 0
    THEN [clusterID |-> "", err |-> NoError, panic |-> FALSE]
    ELSE [clusterID |-> resp.DBInstances[1].DBClusterIdentifier.v, err |-> NoError,
          panic |-> FALSE]

\* variant: only the cluster identifier of the instance is required, not its ARN
getClusterIdentifierNoArnCheck(id, resp) ==
    IF resp.err # ""
    THEN [clusterID |-> "", err |-> Error("failed to describe DB instance", resp.err),
          panic |-> FALSE]
    ELSE IF resp.nil \/ Len(resp.DBInstances) = 0 \/ resp.DBInstances[1].nil
    THEN [clusterID |-> "", err |-> Error("no DB instance found with ID", ""),
          panic |-> FALSE]
    ELSE IF resp.DBInstances[1].DBClusterIdentifier.nil
    THEN [clusterID |-> "",
          err |-> Error("instance is not part of a cluster or details are missing", ""),
          panic |-> FALSE]
    ELSE [clusterID |-> resp.DBInstances[1].DBClusterIdentifier.v, err |-> NoError,
          panic |-> FALSE]

\* variant: the error of DescribeDBInstances is formatted with %v, which keeps
\* its text and drops the error itself
getClusterIdentifierUnwrapped(id, resp) ==
    IF resp.err # ""
    THEN [clusterID |-> "", err |-> Error("failed to describe DB instance", ""),
          panic |-> FALSE]
    ELSE IF resp.nil \/ Len(resp.DBInstances) = 0 \/ resp.DBInstances[1].nil
    THEN [clusterID |-> "", err |-> Error("no DB instance found with ID", ""),
          panic |-> FALSE]
    ELSE IF resp.DBInstances[1].DBClusterIdentifier.nil \/ resp.DBInstances[1].DBInstanceArn.nil
    THEN [clusterID |-> "",
          err |-> Error("instance is not part of a cluster or details are missing", ""),
          panic |-> FALSE]
    ELSE [clusterID |-> resp.DBInstances[1].DBClusterIdentifier.v, err |-> NoError,
          panic |-> FALSE]

\* variant: the last instance of the response is the one looked at
getClusterIdentifierLast(id, resp) ==
    IF resp.err # ""
    THEN [clusterID |-> "", err |-> Error("failed to describe DB instance", resp.err),
          panic |-> FALSE]
    ELSE IF resp.nil
    THEN [clusterID |-> "", err |-> NoError, panic |-> TRUE]
    ELSE IF Len(resp.DBInstances) = 0
    THEN [clusterID |-> "", err |-> Error("no DB instance found with ID", ""),
          panic |-> FALSE]
    ELSE LET dbInstance == resp.DBInstances[Len(resp.DBInstances)]
         IN  IF dbInstance.nil
             THEN [clusterID |-> "", err |-> NoError, panic |-> TRUE]
             ELSE IF dbInstance.DBClusterIdentifier.nil \/ dbInstance.DBInstanceArn.nil
             THEN [clusterID |-> "",
                   err |-> Error("instance is not part of a cluster or details are missing", ""),
                   panic |-> FALSE]
             ELSE [clusterID |-> dbInstance.DBClusterIdentifier.v, err |-> NoError,
                   panic |-> FALSE]

\* Handler.getClusterIdentifier, given the response of DescribeDBInstances:
\* [clusterID, err, panic]
getClusterIdentifier(id, resp) ==
    IF resp.err # ""
    THEN [clusterID |-> "", err |-> Error("failed to describe DB instance", resp.err),
          panic |-> FALSE]
    ELSE IF resp.nil
    THEN [clusterID |-> "", err |-> NoError, panic |-> TRUE]
    ELSE IF Len(resp.DBInstances) = 0
    THEN [clusterID |-> "", err |-> Error("no DB instance found with ID", ""),
          panic |-> FALSE]
    ELSE LET dbInstance == resp.DBInstances[1]
         IN  IF dbInstance.nil
             THEN [clusterID |-> "", err |-> NoError, panic |-> TRUE]
             ELSE IF dbInstance.DBClusterIdentifier.nil \/ dbInstance.DBInstanceArn.nil
             THEN [clusterID |-> "",
                   err |-> Error("instance is not part of a cluster or details are missing", ""),
                   panic |-> FALSE]
             ELSE [clusterID |-> dbInstance.DBClusterIdentifier.v, err |-> NoError,
                   panic |-> FALSE]

\* the expected cluster at the comparison: the local read from the environment
\* at the start of HandleRequest
\* variant: the environment is read again at the comparison
ExpectedClusterReread(i) == environ.RDS_CLUSTER_IDENTIFIER
ExpectedCluster(i) == expectedClusterID[i]

\* clusterID != expectedClusterID, negated: the instance is a member
\* variants: the comparison is missing, or only checks that a cluster is named
ClusterMatchesAlways(cluster, expected) == TRUE
ClusterMatchesWhenPresent(cluster, expected) == cluster # ""
ClusterMatches(cluster, expected) == cluster = expected

\* the orders in which range can visit the keys of a map
Orderings(m) ==
    {o \in [1 .. Cardinality(DOMAIN m) -> DOMAIN m] :
        \A a, b \in 1 .. Cardinality(DOMAIN m) : a # b => o[a] # o[b]}

\* the awsTags slice built by the range loop, visiting the keys in order o
\* variant: the loop stops after its first iteration
awsTagsFirstOnly(m, o) ==
    [k \in 1 .. (IF Len(o) > 0 THEN 1 ELSE 0) |-> [Key |-> o[k], Value |-> m[o[k]]]]
\* variant: the slice is made with length len(tagsMap) instead of capacity, so
\* the appended tags follow as many zero entries
awsTagsPreallocated(m, o) ==
    [k \in 1 .. 2 * Len(o) |->
        IF k <= Len(o) THEN [Key |-> "", Value |-> ""]
        ELSE [Key |-> o[k - Len(o)], Value |-> m[o[k - Len(o)]]]]
\* variant: every entry points at the loop variables, which hold the last pair visited
awsTagsLoopVarAliased(m, o) ==
    [k \in 1 .. Len(o) |-> [Key |-> o[Len(o)], Value |-> m[o[Len(o)]]]]
awsTagsOf(m, o) == [k \in 1 .. Len(o) |-> [Key |-> o[k], Value |-> m[o[k]]]]

\* RDS AddTagsToResource: each tag overwrites the value its key had
RECURSIVE AddTags(_, _)
AddTags(old, tags) ==
    IF tags = << >> THEN old
    ELSE AddTags(MapPut(old, Head(tags).Key, Head(tags).Value), Tail(tags))

Call(i, op, in, out) ==
    calls' = [calls EXCEPT ![i] = Append(@, [op |-> op, in |-> in, out |-> out])]

\* return r from HandleRequest
\* variant: after a throttled capability call the handler starts over, once
FinishRetryThrottled(i, r) ==
    IF r.kind = "error" /\ r.err.cause = "Throttling" /\ Len(calls[i]) < 2
    THEN /\ pc' = [pc EXCEPT ![i] = "describe"]
         /\ UNCHANGED result
    ELSE /\ result' = [result EXCEPT ![i] = r]
         /\ pc' = [pc EXCEPT ![i] = "done"]
\* variant: the naming filter logs its skip and lacks the return
FinishSkipContinues(i, r) ==
    IF r.kind = "nil" /\ pc[i] = "filter"
    THEN /\ pc' = [pc EXCEPT ![i] = "describe"]
         /\ UNCHANGED result
    ELSE /\ result' = [result EXCEPT ![i] = r]
         /\ pc' = [pc EXCEPT ![i] = "done"]
Finish(i, r) ==
    /\ result' = [result EXCEPT ![i] = r]
    /\ pc' = [pc EXCEPT ![i] = "done"]

(***************************************************************************)
(* HandleRequest, one action per stretch of code between two accesses to   *)
(* state that other invocations can touch.                                 *)
(***************************************************************************)
\* HandleRequest(c, e) is entered; its first statement: h.logger = loggerFromContext(ctx)
Invoke(i, c, e) ==
    /\ pc[i] = "idle"
    /\ ctx' = [ctx EXCEPT ![i] = c]
    /\ event' = [event EXCEPT ![i] = e]
    /\ logger' = loggerFromContext(c)
    /\ pc' = [pc EXCEPT ![i] = "readCluster"]
    /\ UNCHANGED <<do_not_creat_event_bridge, environ, resTags, applied,
                   expectedClusterID, tagsMap, dbInstanceID, clusterID,
                   callerIdentityOutput, result, calls, logs>>

\* expectedClusterID := os.Getenv("RDS_CLUSTER_IDENTIFIER") and its check
ReadCluster(i) ==
    /\ pc[i] = "readCluster"
    /\ expectedClusterID' = [expectedClusterID EXCEPT ![i] = environ.RDS_CLUSTER_IDENTIFIER]
    /\ IF environ.RDS_CLUSTER_IDENTIFIER = ""
       THEN /\ Printf(i, "RDS_CLUSTER_IDENTIFIER environment variable is not set", "")
            /\ Finish(i, ReturnErr(Error("RDS_CLUSTER_IDENTIFIER environment variable is required", "")))
       ELSE /\ pc' = [pc EXCEPT ![i] = "readTags"]
            /\ UNCHANGED <<result, logs>>
    /\ UNCHANGED <<shared, ctx, event, tagsMap, dbInstanceID, clusterID,
                   callerIdentityOutput, calls>>

\* tagsEnv := os.Getenv("TAGS") and json.Unmarshal into tagsMap
ReadTags(i) ==
    /\ pc[i] = "readTags"
    /\ LET r == UnmarshalTags(environ.TAGS)
       IN  /\ tagsMap' = [tagsMap EXCEPT ![i] = r.map]
           /\ IF r.err # ""
              THEN /\ Printf(i, "Error parsing tags from environment", r.err)
                   /\ Finish(i, ReturnErr(Error(r.err, "")))
              ELSE /\ pc' = [pc EXCEPT ![i] = "parseEvent"]
                   /\ UNCHANGED <<result, logs>>
    /\ UNCHANGED <<shared, ctx, event, expectedClusterID, dbInstanceID, clusterID,
                   callerIdentityOutput, calls>>

\* json.Unmarshal(event.Detail, &detail) and the "Received event" record
ParseEvent(i) ==
    /\ pc[i] = "parseEvent"
    /\ LET r == UnmarshalDetail(event[i])
       IN  IF r.err # ""
           THEN /\ Printf(i, "Error unmarshalling event detail", r.err)
                /\ Finish(i, ReturnErr(Error(r.err, "")))
                /\ UNCHANGED dbInstanceID
           ELSE /\ dbInstanceID' = [dbInstanceID EXCEPT ![i] = r.id]
                /\ Printf(i, "Received event for DB instance", r.id)
                /\ pc' = [pc EXCEPT ![i] = "filter"]
                /\ UNCHANGED result
    /\ UNCHANGED <<shared, ctx, event, expectedClusterID, tagsMap, clusterID,
                   callerIdentityOutput, calls>>

\* the naming-convention filter
Filter(i) ==
    /\ pc[i] = "filter"
    /\ IF ~PassesFilter(dbInstanceID[i])
       THEN /\ Printf(i, "DB instance is not an Aurora instance. Skipping.", dbInstanceID[i])
            /\ Finish(i, ReturnNil)
       ELSE /\ pc' = [pc EXCEPT ![i] = "describe"]
            /\ UNCHANGED <<result, logs>>
    /\ UNCHANGED <<shared, locals, calls>>

\* h.getClusterIdentifier(dbInstanceID) and the comparison with the expected cluster
Describe(i) ==
    /\ pc[i] = "describe"
    /\ \E resp \in DescribeResponses :
          LET r == getClusterIdentifier(dbInstanceID[i], resp)
          IN  /\ Call(i, "DescribeDBInstances", DescribeInput(dbInstanceID[i]), resp)
              /\ clusterID' = [clusterID EXCEPT ![i] = r.clusterID]
              /\ IF r.panic
                 THEN Finish(i, Panic) /\ UNCHANGED logs
                 ELSE IF r.err # NoError
                 THEN /\ Printf(i, "Error getting cluster identifier for instance", r.err.msg)
                      /\ Finish(i, ReturnErr(r.err))
                 ELSE IF ~ClusterMatches(r.clusterID, ExpectedCluster(i))
                 THEN /\ Printf(i, "DB instance is not a member of cluster. Skipping.", dbInstanceID[i])
                      /\ Finish(i, ReturnNil)
                 ELSE /\ pc' = [pc EXCEPT ![i] = "identity"]
                      /\ UNCHANGED <<result, logs>>
    /\ UNCHANGED <<shared, ctx, event, expectedClusterID, tagsMap, dbInstanceID,
                   callerIdentityOutput>>

\* h.sts.GetCallerIdentity(...)
Identity(i) ==
    /\ pc[i] = "identity"
    /\ \E resp \in IdentityResponses :
          /\ Call(i, "GetCallerIdentity", Input("", "", << >>), resp)
          /\ callerIdentityOutput' = [callerIdentityOutput EXCEPT ![i] = resp]
          /\ IF resp.err # ""
             THEN /\ Printf(i, "Error getting AWS caller identity", resp.err)
                  /\ Finish(i, ReturnErr(Error(resp.err, resp.err)))
             ELSE /\ pc' = [pc EXCEPT ![i] = "apply"]
                  /\ UNCHANGED <<result, logs>>
    /\ UNCHANGED <<shared, ctx, event, expectedClusterID, tagsMap, dbInstanceID, clusterID>>

\* the range loop over tagsMap, the ARN, and h.rds.AddTagsToResource(...)
Apply(i) ==
    /\ pc[i] = "apply"
    /\ IF callerIdentityOutput[i].nil \/ callerIdentityOutput[i].Account.nil
       THEN /\ Finish(i, Panic)
            /\ UNCHANGED <<resTags, applied, calls, logs>>
       ELSE \E o \in Orderings(tagsMap[i]), resp \in AddTagsResponses :
               LET awsTags == awsTagsOf(tagsMap[i], o)
                   arn == BuildArn(callerIdentityOutput[i].Account.v, dbInstanceID[i])
               IN  /\ Call(i, "AddTagsToResource", Input("", arn, awsTags), resp)
                   /\ IF resp.err # ""
                      THEN /\ Printf(i, "Error adding tags to DB instance", resp.err)
                           /\ Finish(i, ReturnErr(Error(resp.err, resp.err)))
                           /\ UNCHANGED <<resTags, applied>>
                      ELSE /\ resTags' = [resTags EXCEPT ![arn] = AddTags(@, awsTags)]
                           /\ applied' = [applied EXCEPT
                                            ![arn] = IF @ < MaxApply THEN @ + 1 ELSE @]
                           /\ Finish(i, ReturnNil)
                           /\ UNCHANGED logs
    /\ UNCHANGED <<do_not_creat_event_bridge, environ, logger, locals>>

\* HandleRequest has returned (or panicked): the runtime is done with the invocation
Return(i) ==
    /\ pc[i] = "done"
    /\ pc' = [pc EXCEPT ![i] = "idle"]
    /\ ctx' = [ctx EXCEPT ![i] = NoContext]
    /\ event' = [event EXCEPT ![i] = Doc("empty")]
    /\ expectedClusterID' = [expectedClusterID EXCEPT ![i] = ""]
    /\ tagsMap' = [tagsMap EXCEPT ![i] = EmptyMap]
    /\ dbInstanceID' = [dbInstanceID EXCEPT ![i] = ""]
    /\ clusterID' = [clusterID EXCEPT ![i] = ""]
    /\ callerIdentityOutput' = [callerIdentityOutput EXCEPT ![i] = NoIdentity]
    /\ result' = [result EXCEPT ![i] = Pending]
    /\ calls' = [calls EXCEPT ![i] = << >>]
    /\ logs' = [logs EXCEPT ![i] = << >>]
    /\ UNCHANGED shared

Step(i) ==
    \/ ReadCluster(i)
    \/ ReadTags(i)
    \/ ParseEvent(i)
    \/ Filter(i)
    \/ Describe(i)
    \/ Identity(i)
    \/ Apply(i)
    \/ Return(i)

\* the context of a running invocation is cancelled or its deadline expires;
\* HandleRequest never reads ctx after its first statement and the RDSAPI and
\* STSAPI methods take no context, so nothing else changes
Cancel(i) ==
    /\ pc[i] \notin {"idle", "done"}
    /\ ~ctx[i].done
    /\ ctx' = [ctx EXCEPT ![i].done = TRUE]
    /\ UNCHANGED <<shared, pc, event, expectedClusterID, tagsMap, dbInstanceID,
                   clusterID, callerIdentityOutput, result, calls, logs>>

\* EventBridge invokes the function when the rule and its target exist
Triggered == {EventRule, EventTarget} \subseteq TerraformApply(do_not_creat_event_bridge)

\* lambda.Start(handler.HandleRequest): the runtime hands the handler one
\* event at a time
OneAtATime == \A j \in Inv : pc[j] = "idle"

Begin(i) ==
    /\ Triggered
    /\ OneAtATime
    /\ \E c \in Contexts(i), e \in DetailDocs : Invoke(i, c, e)

Next == \E i \in Inv : Begin(i) \/ Step(i) \/ Cancel(i)

Spec == Init /\ [][Next]_vars

\* the goroutine of an invocation keeps running and every capability call
\* returns, so a step that stays possible is eventually taken
SpecFair == Spec /\ \A i \in Inv : WF_vars(Step(i))

\* a host that dispatches overlapping events to the same Handler
OverlappingDetailDocs ==
    {Doc("invalid"), Obj(<<Member("SourceIdentifier", JStr("nibbler"))>>),
     Obj(<<Member("SourceIdentifier", JStr("application-autoscaling-fry"))>>)}

BeginOverlapping(i) ==
    /\ Triggered
    /\ \E e \in OverlappingDetailDocs :
          Invoke(i, [lambda |-> TRUE, AwsRequestID |-> RequestIdOf(i), done |-> FALSE], e)

NextConcurrent == \E i \in Inv : BeginOverlapping(i) \/ Step(i)

SpecConcurrent == Init /\ [][NextConcurrent]_vars

\* a runtime that hands over the next event while the outcome of the last
\* invocation is still held, so that the two can be compared
BeginNext(i) ==
    /\ Triggered
    /\ \A j \in Inv : pc[j] \in {"idle", "done"}
    /\ Cardinality({j \in Inv : pc[j] = "done"}) <= 1
    /\ \E e \in OverlappingDetailDocs :
          Invoke(i, [lambda |-> TRUE, AwsRequestID |-> RequestIdOf(i), done |-> FALSE], e)

NextKeeping == \E i \in Inv : BeginNext(i) \/ Step(i)

SpecKeeping == Init /\ [][NextKeeping]_vars

\* a host whose environment changes at any moment, also while an invocation runs
ChangedEnvironments ==
    {[RDS_CLUSTER_IDENTIFIER |-> "", TAGS |-> Obj(<< >>)],
     [RDS_CLUSTER_IDENTIFIER |-> "planet-express",
      TAGS |-> Obj(<<Member("Owner", JStr("farnsworth"))>>)],
     [RDS_CLUSTER_IDENTIFIER |-> "momcorp",
      TAGS |-> Obj(<<Member("Owner", JStr("mom"))>>)]}

Setenv ==
    /\ \E e \in ChangedEnvironments : e # environ /\ environ' = e
    /\ UNCHANGED <<do_not_creat_event_bridge, logger, resTags, applied, pc, locals,
                   result, calls, logs>>

BeginChanging(i) ==
    /\ Triggered
    /\ OneAtATime
    /\ \E e \in OverlappingDetailDocs :
          Invoke(i, [lambda |-> TRUE, AwsRequestID |-> RequestIdOf(i), done |-> FALSE], e)

NextChanging == Setenv \/ \E i \in Inv : BeginChanging(i) \/ Step(i)

SpecChanging == Init /\ [][NextChanging]_vars

(***************************************************************************)
(* Vocabulary of the properties, stated on the inputs (environment, event, *)
(* capability responses) and on what the invocation did (calls, result).   *)
(***************************************************************************)
Done(i) == pc[i] = "done"

ReturnedNil(i) == Done(i) /\ result[i].kind = "nil"
ReturnedError(i) == Done(i) /\ result[i].kind = "error"

\* the values an event's detail gives for SourceIdentifier
SourceIdValues(doc) ==
    {doc.members[k].val : k \in {n \in 1 .. Len(doc.members) :
                                    doc.members[n].key = "SourceIdentifier"}}

\* a detail of the expected shape: an object whose SourceIdentifier is a string
ParseableEvent(doc) ==
    doc.kind = "object" /\ \A v \in SourceIdValues(doc) : v.kind = "string"

\* the instance identifier a parseable event names ("" when it names none)
EventNames(doc, s) ==
    IF SourceIdValues(doc) = {} THEN s = "" ELSE JStr(s) \in SourceIdValues(doc)

\* TAGS is a JSON object of strings
TagsValid(doc) ==
    doc.kind = "object" /\ \A k \in 1 .. Len(doc.members) : doc.members[k].val.kind = "string"

\* TAGS is no JSON text, or JSON of another type than an object of strings
\* (the JSON value null, alone or as a member's value, is neither: see C13)
TagsMalformed(doc) ==
    \/ doc.kind \in {"empty", "invalid"}
    \/ doc.kind \notin {"object", "null"}
    \/ \E k \in 1 .. Len(doc.members) : doc.members[k].val.kind \notin {"string", "null"}

ConfigValid == environ.RDS_CLUSTER_IDENTIFIER # "" /\ TagsValid(environ.TAGS)
ConfigInvalid == environ.RDS_CLUSTER_IDENTIFIER = "" \/ TagsMalformed(environ.TAGS)

\* the (key, value) pairs TAGS configures: for each key its last value
ConfiguredPairs(doc) ==
    {<<doc.members[k].key, doc.members[k].val.s>> :
        k \in {n \in 1 .. Len(doc.members) :
                 \A later \in (n + 1) .. Len(doc.members) :
                    doc.members[later].key # doc.members[n].key}}

\* a DescribeDBInstances response that resolves to a cluster identifier
Resolved(resp) ==
    /\ resp.err = ""
    /\ ~resp.nil
    /\ Len(resp.DBInstances) >= 1
    /\ ~resp.DBInstances[1].nil
    /\ ~resp.DBInstances[1].DBClusterIdentifier.nil
    /\ ~resp.DBInstances[1].DBInstanceArn.nil

ResolvedCluster(resp) == resp.DBInstances[1].DBClusterIdentifier.v

Ops(i) == [k \in 1 .. Len(calls[i]) |-> calls[i][k].op]

FryEvent == Obj(<<Member("SourceIdentifier", JStr("application-autoscaling-fry"))>>)

(***************************************************************************)
(* C1  Filter correctness.  With a valid configuration and a parseable     *)
(* event whose SourceIdentifier does not contain "application-autoscaling-"*)
(* the finished invocation returned nil and made no capability call.       *)
(***************************************************************************)
C1_FilterCorrectness ==
    \A i \in Inv :
        (/\ Done(i)
         /\ ConfigValid
         /\ ParseableEvent(event[i])
         /\ \A s \in InstanceIds \cup {""} :
               EventNames(event[i], s) => ~Contains(s, "application-autoscaling-"))
        => /\ result[i].kind = "nil"
           /\ calls[i] = << >>

C1_Witness ==
    \E i \in Inv :
        /\ Done(i)
        /\ ConfigValid
        /\ event[i] = Obj(<<Member("SourceIdentifier", JStr("nibbler"))>>)
        /\ result[i].kind = "nil"
        /\ calls[i] = << >>

(***************************************************************************)
(* C2  Membership gating.  When DescribeDBInstances resolved the instance  *)
(* to a cluster other than RDS_CLUSTER_IDENTIFIER, the finished invocation *)
(* returned nil and DescribeDBInstances is the only call it made.          *)
(***************************************************************************)
C2_MembershipGating ==
    \A i \in Inv :
        (/\ Len(calls[i]) >= 1
         /\ calls[i][1].op = "DescribeDBInstances"
         /\ Resolved(calls[i][1].out)
         /\ ResolvedCluster(calls[i][1].out) # environ.RDS_CLUSTER_IDENTIFIER)
        => /\ ReturnedNil(i)
           /\ Ops(i) = <<"DescribeDBInstances">>

C2_Witness ==
    \E i \in Inv :
        /\ Done(i)
        /\ dbInstanceID[i] = "application-autoscaling-fry"
        /\ Len(calls[i]) = 1
        /\ Resolved(calls[i][1].out)
        /\ ResolvedCluster(calls[i][1].out) = "momcorp"
        /\ result[i].kind = "nil"

(***************************************************************************)
(* C3  Fail-fast ordering.  With an invalid configuration (cluster         *)
(* identifier empty or absent, or TAGS malformed) an invocation makes no   *)
(* capability call at any point and, once finished, has returned an error. *)
(***************************************************************************)
C3_FailFast ==
    \A i \in Inv :
        ConfigInvalid =>
            /\ calls[i] = << >>
            /\ Done(i) => result[i].kind = "error"

C3_Witness ==
    \E i \in Inv :
        /\ Done(i)
        /\ environ.RDS_CLUSTER_IDENTIFIER # ""
        /\ TagsMalformed(environ.TAGS)
        /\ event[i] = FryEvent
        /\ result[i].kind = "error"

(***************************************************************************)
(* C4  Error propagation.  An invocation in which a capability call failed *)
(* has finished, that call was its last, and it returned an error, not the *)
(* nil of a skip.                                                          *)
(***************************************************************************)
C4_ErrorPropagation ==
    \A i \in Inv :
        \A k \in 1 .. Len(calls[i]) :
            calls[i][k].out.err # "" =>
                /\ k = Len(calls[i])
                /\ ReturnedError(i)

C4_Witness ==
    \E i \in Inv :
        /\ Done(i)
        /\ Len(calls[i]) = 3
        /\ calls[i][3].op = "AddTagsToResource"
        /\ calls[i][3].out.err = "Throttling"
        /\ result[i].kind = "error"

(***************************************************************************)
(* C5  AddTagsToResource is only ever the third call of an invocation,     *)
(* after a DescribeDBInstances that resolved to the expected cluster and a *)
(* GetCallerIdentity that succeeded, both in that invocation.              *)
(***************************************************************************)
C5_TagOnlyAfterResolution ==
    \A i \in Inv :
        \A k \in 1 .. Len(calls[i]) :
            calls[i][k].op = "AddTagsToResource" =>
                /\ k = 3
                /\ calls[i][1].op = "DescribeDBInstances"
                /\ Resolved(calls[i][1].out)
                /\ ResolvedCluster(calls[i][1].out) = environ.RDS_CLUSTER_IDENTIFIER
                /\ calls[i][2].op = "GetCallerIdentity"
                /\ calls[i][2].out.err = ""

C5_Witness ==
    \E i \in Inv :
        /\ Done(i)
        /\ Len(calls[i]) = 3
        /\ calls[i][3].op = "AddTagsToResource"
        /\ calls[i][2].out.Account = Ptr("123456789012")

(***************************************************************************)
(* C6  Full success.  When the identifier passes the filter, the cluster   *)
(* matches and the identity resolves to an account, AddTagsToResource is   *)
(* called; when it succeeds the invocation returns nil, and the call named *)
(* the resource arn:aws:rds:us-east-1:<account>:db:<instance identifier>   *)
(* (built, not the ARN of the instance descriptor) and carried exactly the *)
(* configured tags.                                                        *)
(***************************************************************************)
TagSetOf(tags) == {<<tags[k].Key, tags[k].Value>> : k \in 1 .. Len(tags)}

C6_FullSuccess ==
    \A i \in Inv :
        /\ (/\ Done(i)
            /\ Len(calls[i]) >= 2
            /\ calls[i][2].out.err = ""
            /\ ~calls[i][2].out.nil
            /\ ~calls[i][2].out.Account.nil)
           => /\ Len(calls[i]) = 3
              /\ calls[i][3].op = "AddTagsToResource"
        /\ (/\ Done(i)
            /\ Len(calls[i]) = 3
            /\ calls[i][3].out.err = "")
           => /\ result[i].kind = "nil"
              /\ \E s \in InstanceIds :
                    /\ EventNames(event[i], s)
                    /\ calls[i][3].in.ResourceName =
                          "arn:aws:rds:us-east-1:" \o calls[i][2].out.Account.v
                             \o ":db:" \o s
              /\ calls[i][3].in.ResourceName
                    # calls[i][1].out.DBInstances[1].DBInstanceArn.v
              /\ TagSetOf(calls[i][3].in.Tags) = ConfiguredPairs(environ.TAGS)
              /\ Len(calls[i][3].in.Tags) = Cardinality(ConfiguredPairs(environ.TAGS))

C6_Witness ==
    \E i \in Inv :
        /\ Done(i)
        /\ result[i].kind = "nil"
        /\ event[i] = FryEvent
        /\ Len(calls[i]) = 3
        /\ calls[i][3].in.ResourceName =
              "arn:aws:rds:us-east-1:123456789012:db:application-autoscaling-fry"
        /\ TagSetOf(calls[i][3].in.Tags) = {<<"Owner", "farnsworth">>, <<"Purpose", "delivery">>}

(***************************************************************************)
(* C7  A finished invocation returned nil only after the naming skip, the  *)
(* cluster-mismatch skip or a successful AddTagsToResource; every other    *)
(* finished invocation returned an error.                                  *)
(***************************************************************************)
NamingSkip(i) ==
    /\ ~ConfigInvalid
    /\ ParseableEvent(event[i]) \/ event[i].kind = "null"
    /\ calls[i] = << >>
    /\ \E s \in InstanceIds \cup {""} :
          EventNames(event[i], s) /\ ~Contains(s, "application-autoscaling-")

ClusterSkip(i) ==
    /\ Ops(i) = <<"DescribeDBInstances">>
    /\ Resolved(calls[i][1].out)
    /\ ResolvedCluster(calls[i][1].out) # environ.RDS_CLUSTER_IDENTIFIER

Tagged(i) ==
    /\ Ops(i) = <<"DescribeDBInstances", "GetCallerIdentity", "AddTagsToResource">>
    /\ calls[i][3].out.err = ""

HasPrefix(s, p) == Len(s) >= Len(p) /\ SubSeq(s, 1, Len(p)) = p

C8_TaggedOnlyWithPrefix ==
    \A i \in Inv :
        \A k \in 1 .. Len(calls[i]) :
            calls[i][k].op = "AddTagsToResource" =>
                \A s \in InstanceIds \cup {""} :
                    EventNames(event[i], s) => HasPrefix(s, "application-autoscaling-")

(***************************************************************************)
(* C9  Idempotence under redelivery.  However many times the tags were     *)
(* applied to a resource, it carries the tags one application leaves: its  *)
(* earlier tags overwritten by the configured ones.                        *)
(***************************************************************************)
TagsAfterOneRun ==
    LET cfg == ConfiguredPairs(environ.TAGS)
        keys == {p[1] : p \in cfg}
    IN  [k \in (DOMAIN PreexistingTags) \cup keys |->
            IF k \in keys THEN (CHOOSE p \in cfg : p[1] = k)[2] ELSE PreexistingTags[k]]

C9_Idempotence ==
    \A a \in Arns :
        /\ applied[a] >= 1 => resTags[a] = TagsAfterOneRun
        /\ applied[a] = 0 => resTags[a] = PreexistingTags

C9_Witness ==
    \E a \in Arns :
        /\ applied[a] >= 2
        /\ resTags[a] # PreexistingTags
        /\ \E i \in Inv : Done(i) /\ Tagged(i) /\ calls[i][3].in.ResourceName = a

(***************************************************************************)
(* C10  Concurrent invocations are independent: every log record an        *)
(* invocation writes carries the diagnostic context of that invocation     *)
(* (the fields loggerFromContext gives for its own ctx), whatever other    *)
(* invocations do meanwhile.                                               *)
(***************************************************************************)
C10_OwnDiagnosticContext ==
    \A i \in Inv :
        \A k \in 1 .. Len(logs[i]) :
            logs[i][k].fields = loggerFromContext(ctx[i])

(***************************************************************************)
(* C11  Cancellation.  Once the context of an invocation is cancelled or   *)
(* its deadline has expired, the invocation makes no further capability    *)
(* call: no step of a cancelled invocation adds a call to those it made.   *)
(***************************************************************************)
C11_NoCallAfterCancellation ==
    [][\A i \in Inv :
          ctx[i].done => (calls'[i] = calls[i] \/ calls'[i] = << >>)]_vars

(***************************************************************************)
(* C12  Membership-resolution failures are errors, never skips.  When      *)
(* DescribeDBInstances failed, returned no instance, or returned an        *)
(* instance without its cluster identifier or without its ARN, the cluster *)
(* identifier obtained is empty, the invocation returned a non-nil error   *)
(* and made no other call, whether or not the cluster identifier that is   *)
(* present equals the expected one.                                        *)
(***************************************************************************)
ResolutionFailed(resp) ==
    \/ resp.err # ""
    \/ /\ resp.err = ""
       /\ ~resp.nil
       /\ \/ Len(resp.DBInstances) = 0
          \/ /\ ~resp.DBInstances[1].nil
             /\ \/ resp.DBInstances[1].DBClusterIdentifier.nil
                \/ resp.DBInstances[1].DBInstanceArn.nil

C12_ResolutionFailureIsError ==
    \A i \in Inv :
        (Len(calls[i]) >= 1 /\ ResolutionFailed(calls[i][1].out))
            => /\ ReturnedError(i)
               /\ result[i].err # NoError
               /\ clusterID[i] = ""
               /\ Len(calls[i]) = 1

\* the instance names the expected cluster and lacks only its ARN
C12_Witness ==
    \E i \in Inv :
        /\ ReturnedError(i)
        /\ Len(calls[i]) = 1
        /\ calls[i][1].out.err = ""
        /\ Len(calls[i][1].out.DBInstances) = 1
        /\ calls[i][1].out.DBInstances[1].DBClusterIdentifier = Ptr(expectedClusterID[i])
        /\ calls[i][1].out.DBInstances[1].DBInstanceArn.nil

(***************************************************************************)
(* C13  TAGS validation.  Unless TAGS is present and a JSON object whose   *)
(* values are all strings (so when it is absent, empty, no JSON text, the  *)
(* JSON value null, a value of another type, or an object with a value     *)
(* that is not a string), the invocation makes no capability call and,     *)
(* once finished, has returned an error.                                   *)
(***************************************************************************)
C13_TagsValidation ==
    \A i \in Inv :
        ~TagsValid(environ.TAGS)
            => /\ calls[i] = << >>
               /\ Done(i) => ReturnedError(i)

(***************************************************************************)
(* C14  Event parsing, as claimed.  With a valid configuration, an         *)
(* invocation whose event detail is not an object carrying a string        *)
(* SourceIdentifier returned an error and made no capability call.         *)
(***************************************************************************)
CarriesSourceId(doc) ==
    /\ doc.kind = "object"
    /\ SourceIdValues(doc) # {}
    /\ \A v \in SourceIdValues(doc) : v.kind = "string"

C14_EventParsing ==
    \A i \in Inv :
        (ConfigValid /\ Done(i) /\ ~CarriesSourceId(event[i]))
            => ReturnedError(i) /\ calls[i] = << >>

(***************************************************************************)
(* C14  Event parsing, amended.  With a valid configuration, a detail that *)
(* is no JSON text, a JSON value other than an object or null, or an       *)
(* object whose SourceIdentifier is neither a string nor null makes the    *)
(* invocation return the decoding error without any capability call; the   *)
(* detail null and an object with no SourceIdentifier, or a null one, are  *)
(* decoded as the empty identifier: the invocation returns nil, again      *)
(* without any capability call.                                            *)
(***************************************************************************)
EventRejected(doc) ==
    \/ doc.kind \notin {"object", "null"}
    \/ \E v \in SourceIdValues(doc) : v.kind \notin {"string", "null"}

EventWithoutId(doc) ==
    \/ doc.kind = "null"
    \/ doc.kind = "object" /\ \A v \in SourceIdValues(doc) : v.kind = "null"

C14_EventDecoding ==
    \A i \in Inv :
        (ConfigValid /\ Done(i))
            => /\ EventRejected(event[i])
                    => /\ ReturnedError(i)
                       /\ result[i].err.msg \in {"SyntaxError", "UnmarshalTypeError"}
                       /\ calls[i] = << >>
               /\ EventWithoutId(event[i])
                    => ReturnedNil(i) /\ calls[i] = << >>

\* a SourceIdentifier that is a number was rejected
C14_Witness ==
    \E i \in Inv :
        /\ ConfigValid
        /\ ReturnedError(i)
        /\ event[i] = Obj(<<Member("SourceIdentifier", JNum)>>)
        /\ result[i].err.msg = "UnmarshalTypeError"
        /\ calls[i] = << >>

(***************************************************************************)
(* C15  Observability.  Whenever HandleRequest has returned, nil or an     *)
(* error, the last record it logged is the record of the decision it       *)
(* returned on: configuration missing, parse failure, either skip, a       *)
(* capability error, or the tags having been applied.                      *)
(***************************************************************************)
DecisionMessages ==
    {"RDS_CLUSTER_IDENTIFIER environment variable is not set",
     "Error parsing tags from environment",
     "Error unmarshalling event detail",
     "DB instance is not an Aurora instance. Skipping.",
     "Error getting cluster identifier for instance",
     "DB instance is not a member of cluster. Skipping.",
     "Error getting AWS caller identity",
     "Error adding tags to DB instance"}

C15_OutcomeLogged ==
    \A i \in Inv :
        (ReturnedNil(i) \/ ReturnedError(i))
            => /\ logs[i] # << >>
               /\ logs[i][Len(logs[i])].msg \in DecisionMessages

(***************************************************************************)
(* C16  No retries.  The calls of an invocation are a prefix of            *)
(* DescribeDBInstances, GetCallerIdentity, AddTagsToResource, so each      *)
(* capability is called at most once; and a call that failed, throttling   *)
(* included, is the last call of an invocation that returned an error.     *)
(***************************************************************************)
CallOrder == <<"DescribeDBInstances", "GetCallerIdentity", "AddTagsToResource">>

C16_NoRetries ==
    \A i \in Inv :
        /\ Len(calls[i]) <= Len(CallOrder)
        /\ Ops(i) = SubSeq(CallOrder, 1, Len(calls[i]))
        /\ \A k \in 1 .. Len(calls[i]) :
              calls[i][k].out.err # "" => (k = Len(calls[i]) /\ ReturnedError(i))

\* GetCallerIdentity was throttled: no second attempt, no AddTagsToResource
C16_Witness ==
    \E i \in Inv :
        /\ ReturnedError(i)
        /\ Ops(i) = <<"DescribeDBInstances", "GetCallerIdentity">>
        /\ calls[i][2].out.err = "Throttling"

(***************************************************************************)
(* C17  Cause preservation.  When a capability call failed with error E,   *)
(* the error HandleRequest returned has E as its cause: E wrapped in the   *)
(* same message whatever E is for DescribeDBInstances, E itself for        *)
(* GetCallerIdentity and AddTagsToResource.                                *)
(***************************************************************************)
C17_CausePreserved ==
    \A i \in Inv :
        \A k \in 1 .. Len(calls[i]) :
            LET E == calls[i][k].out.err
            IN  E # ""
                  => /\ ReturnedError(i)
                     /\ result[i].err.cause = E
                     /\ result[i].err =
                          IF calls[i][k].op = "DescribeDBInstances"
                          THEN Error("failed to describe DB instance", E)
                          ELSE Error(E, E)

\* a throttled DescribeDBInstances, returned wrapped
C17_Witness ==
    \E i \in Inv :
        /\ ReturnedError(i)
        /\ Ops(i) = <<"DescribeDBInstances">>
        /\ calls[i][1].out.err = "Throttling"
        /\ result[i].err.cause = "Throttling"
        /\ result[i].err.msg # "Throttling"

(***************************************************************************)
(* C18  The module input do_not_creat_event_bridge decides whether the     *)
(* EventBridge rule exists: the rule is among the created resources        *)
(* exactly when the input is false.                                        *)
(***************************************************************************)
C18_RuleFollowsInput ==
    (EventRule \in TerraformApply(do_not_creat_event_bridge))
        <=> ~do_not_creat_event_bridge

(***************************************************************************)
(* C19  getClusterIdentifier.  An invocation asks DescribeDBInstances at   *)
(* most once, as its first call, for the instance identifier it was given  *)
(* (the one of the event); the cluster identifier it obtains is the        *)
(* DBClusterIdentifier of the first instance returned when the response    *)
(* resolves, and the empty string otherwise.                               *)
(***************************************************************************)
C19_DescribeRequest ==
    \A i \in Inv :
        /\ \A k \in 1 .. Len(calls[i]) : calls[i][k].op = "DescribeDBInstances" <=> k = 1
        /\ Len(calls[i]) >= 1
             => /\ calls[i][1].in.DBInstanceIdentifier = dbInstanceID[i]
                /\ EventNames(event[i], dbInstanceID[i])
                /\ clusterID[i] = IF Resolved(calls[i][1].out)
                                  THEN ResolvedCluster(calls[i][1].out)
                                  ELSE ""
        /\ calls[i] = << >> => clusterID[i] = ""

\* two instances returned: the cluster of the first is the one obtained
C19_Witness ==
    \E i \in Inv :
        /\ Len(calls[i]) >= 1
        /\ calls[i][1].in.DBInstanceIdentifier = "application-autoscaling-fry"
        /\ Len(calls[i][1].out.DBInstances) = 2
        /\ calls[i][1].out.DBInstances[2].DBClusterIdentifier = Ptr("planet-express")
        /\ clusterID[i] = "momcorp"

(***************************************************************************)
(* C20  loggerFromContext.  The logger a running invocation installed      *)
(* carries aws_request_id, equal to the request id of its Lambda context   *)
(* when it has one and to the fallback placeholder when it has none, and   *)
(* carries version, commit and built_at in both cases.                     *)
(***************************************************************************)
C20_LoggerFields ==
    \A i \in Inv :
        pc[i] # "idle"
            => /\ {"aws_request_id", "version", "commit", "built_at"} \subseteq DOMAIN logger
               /\ logger.aws_request_id =
                     IF ctx[i].lambda THEN ctx[i].AwsRequestID ELSE "alien"
               /\ ctx[i].lambda => logger.aws_request_id = RequestIdOf(i)

\* an invocation without Lambda metadata has logged under the placeholder
C20_Witness ==
    \E i \in Inv :
        /\ ~ctx[i].lambda
        /\ logs[i] # << >>
        /\ logs[i][1].fields.aws_request_id = "alien"
        /\ logs[i][1].fields.version = "dev"

(***************************************************************************)
(* C21  Strict order.  The steps of an invocation run in the order         *)
(* configuration, event parsing, naming filter, DescribeDBInstances,       *)
(* cluster comparison, GetCallerIdentity, AddTagsToResource, and the first *)
(* one that fails or skips ends it: a missing cluster identifier wins over *)
(* bad TAGS and a bad event, bad TAGS win over a bad event, a bad event    *)
(* keeps the filter and every capability from being reached, the record of *)
(* a failure or skip is the last record of a finished invocation, and each *)
(* call comes only after the steps before it succeeded.                    *)
(***************************************************************************)
Messages(i) == [k \in 1 .. Len(logs[i]) |-> logs[i][k].msg]

C21_StrictOrder ==
    \A i \in Inv :
        /\ (Done(i) /\ environ.RDS_CLUSTER_IDENTIFIER = "")
              => /\ ReturnedError(i)
                 /\ result[i].err.msg = "RDS_CLUSTER_IDENTIFIER environment variable is required"
                 /\ Messages(i) = <<"RDS_CLUSTER_IDENTIFIER environment variable is not set">>
                 /\ calls[i] = << >>
        /\ (Done(i) /\ environ.RDS_CLUSTER_IDENTIFIER # "" /\ TagsMalformed(environ.TAGS))
              => /\ ReturnedError(i)
                 /\ Messages(i) = <<"Error parsing tags from environment">>
                 /\ calls[i] = << >>
        /\ (Done(i) /\ ~ConfigInvalid /\ EventRejected(event[i]))
              => /\ ReturnedError(i)
                 /\ Messages(i) = <<"Error unmarshalling event detail">>
                 /\ calls[i] = << >>
        /\ \A k \in 1 .. Len(logs[i]) :
              Messages(i)[k] \in DecisionMessages
                 => k = Len(logs[i]) /\ (ReturnedNil(i) \/ ReturnedError(i))
        /\ calls[i] # << >>
              => /\ Messages(i)[1] = "Received event for DB instance"
                 /\ PassesFilter(dbInstanceID[i])
        /\ Len(calls[i]) <= Len(CallOrder)
        /\ Ops(i) = SubSeq(CallOrder, 1, Len(calls[i]))
        /\ Len(calls[i]) >= 2
              => /\ Resolved(calls[i][1].out)
                 /\ ResolvedCluster(calls[i][1].out) = expectedClusterID[i]
        /\ Len(calls[i]) >= 3 => calls[i][2].out.err = ""

\* everything is wrong at once: the missing cluster identifier is what is reported
C21_Witness ==
    \E i \in Inv :
        /\ ReturnedError(i)
        /\ environ.RDS_CLUSTER_IDENTIFIER = ""
        /\ environ.TAGS = Doc("invalid")
        /\ event[i] = Doc("invalid")
        /\ result[i].err.msg = "RDS_CLUSTER_IDENTIFIER environment variable is required"
        /\ Len(logs[i]) = 1

(***************************************************************************)
(* C22  Tag conversion.  The tag list of every AddTagsToResource call has  *)
(* one entry for each key of the tag mapping, with that key's value, and   *)
(* nothing else: as many entries as the mapping has keys, the keys being   *)
(* those TAGS names; and this in whatever order the mapping is iterated.   *)
(***************************************************************************)
C22_TagConversion ==
    \A i \in Inv :
        \A k \in 1 .. Len(calls[i]) :
            calls[i][k].op = "AddTagsToResource"
                => LET tags == calls[i][k].in.Tags
                       m == tagsMap[i]
                   IN  /\ Len(tags) = Cardinality(DOMAIN m)
                       /\ TagSetOf(tags) = {<<key, m[key]>> : key \in DOMAIN m}
                       /\ DOMAIN m = {environ.TAGS.members[n].key :
                                         n \in 1 .. Len(environ.TAGS.members)}

\* the mapping was iterated against the textual order of TAGS
C22_Witness ==
    \E i \in Inv :
        /\ Len(calls[i]) = 3
        /\ environ.TAGS = Obj(<<Member("Owner", JStr("farnsworth")),
                                Member("Purpose", JStr("delivery"))>>)
        /\ calls[i][3].in.Tags = <<[Key |-> "Purpose", Value |-> "delivery"],
                                   [Key |-> "Owner", Value |-> "farnsworth"]>>

(***************************************************************************)
(* C23  Configuration is read fresh and once.  In every step: the step of  *)
(* an invocation that reads RDS_CLUSTER_IDENTIFIER, or TAGS, takes what    *)
(* the environment holds at that moment, whatever earlier invocations      *)
(* read; no later step of the invocation, and no change of the             *)
(* environment, alters the value read; and the cluster comparison and the  *)
(* tag list use the values read, not those the environment holds by then.  *)
(***************************************************************************)
C23_ConfigReadOnce ==
    [][\A i \in Inv :
          /\ (pc[i] = "readCluster" /\ pc'[i] # "readCluster")
                => expectedClusterID'[i] = environ.RDS_CLUSTER_IDENTIFIER
          /\ (pc[i] = "readTags" /\ pc'[i] # "readTags")
                => tagsMap'[i] = UnmarshalTags(environ.TAGS).map
          /\ (pc[i] \notin {"idle", "readCluster"} /\ pc'[i] # "idle")
                => expectedClusterID'[i] = expectedClusterID[i]
          /\ (pc[i] \notin {"idle", "readCluster", "readTags"} /\ pc'[i] # "idle")
                => tagsMap'[i] = tagsMap[i]
          /\ (pc[i] = "describe" /\ pc'[i] = "identity")
                => clusterID'[i] = expectedClusterID[i]
          /\ (pc[i] = "describe" /\ pc'[i] = "done" /\ result'[i].kind = "nil")
                => clusterID'[i] # expectedClusterID[i]
          /\ (pc[i] = "apply" /\ Len(calls'[i]) = 3)
                => TagSetOf(calls'[i][3].in.Tags)
                      = {<<key, tagsMap[i][key]>> : key \in DOMAIN tagsMap[i]}
      ]_vars

\* the environment changed under a running invocation, which went on with
\* the cluster identifier and the tags it had read
C23_Witness ==
    \E i \in Inv :
        /\ Len(calls[i]) = 3
        /\ environ.RDS_CLUSTER_IDENTIFIER = "momcorp"
        /\ expectedClusterID[i] = "planet-express"
        /\ ResolvedCluster(calls[i][1].out) = "planet-express"
        /\ calls[i][3].in.Tags = <<[Key |-> "Owner", Value |-> "farnsworth"]>>

(***************************************************************************)
(* C24  Termination.  Every invocation that has started eventually ends    *)
(* with one of the three outcomes: it has returned nil, after tagging or   *)
(* after a skip, or it has returned an error.                              *)
(***************************************************************************)
C24_Termination ==
    \A i \in Inv :
        (pc[i] = "readCluster") ~> (ReturnedNil(i) \/ ReturnedError(i))

(***************************************************************************)
(* C25  Crash freedom.  Whatever the capabilities respond, no invocation   *)
(* ends in a panic.                                                        *)
(***************************************************************************)
C25_NoPanic == \A i \in Inv : result[i].kind # "panic"

(***************************************************************************)
(* C26  No SourceIdentifier.  With a valid configuration, a finished       *)
(* invocation whose event detail is an object with no SourceIdentifier, or *)
(* an empty one, read the empty identifier, logged the naming skip,        *)
(* returned nil and made no capability call.                               *)
(***************************************************************************)
NoSourceId(doc) ==
    doc.kind = "object" /\ \A v \in SourceIdValues(doc) : v = JStr("")

C26_EmptyIdentifierSkips ==
    \A i \in Inv :
        (ConfigValid /\ Done(i) /\ NoSourceId(event[i]))
            => /\ dbInstanceID[i] = ""
               /\ ReturnedNil(i)
               /\ calls[i] = << >>
               /\ Messages(i) = <<"Received event for DB instance",
                                  "DB instance is not an Aurora instance. Skipping.">>

\* the detail {} was skipped
C26_Witness ==
    \E i \in Inv :
        /\ ConfigValid
        /\ ReturnedNil(i)
        /\ event[i] = Obj(<< >>)
        /\ calls[i] = << >>

(***************************************************************************)
(* C27  Empty tag set.  With TAGS = {} and the cluster identifier set, a   *)
(* finished invocation for an autoscaled replica was not refused for its   *)
(* tags: it called DescribeDBInstances; when the instance resolved to the  *)
(* expected cluster it called GetCallerIdentity; and when that gave an     *)
(* account it called AddTagsToResource, once, with an empty tag list, and  *)
(* returned nil if that call succeeded.                                    *)
(***************************************************************************)
IdentityResolved(resp) == resp.err = "" /\ ~resp.nil /\ ~resp.Account.nil

C27_EmptyTagSet ==
    \A i \in Inv :
        (/\ Done(i)
         /\ environ.TAGS = Obj(<< >>)
         /\ environ.RDS_CLUSTER_IDENTIFIER # ""
         /\ event[i] = FryEvent)
            => /\ Len(calls[i]) >= 1
               /\ calls[i][1].op = "DescribeDBInstances"
               /\ (/\ Resolved(calls[i][1].out)
                   /\ ResolvedCluster(calls[i][1].out) = environ.RDS_CLUSTER_IDENTIFIER)
                     => /\ Len(calls[i]) >= 2
                        /\ calls[i][2].op = "GetCallerIdentity"
                        /\ IdentityResolved(calls[i][2].out)
                             => /\ Ops(i) = CallOrder
                                /\ calls[i][3].in.Tags = << >>
                                /\ calls[i][3].out.err = "" => ReturnedNil(i)

\* AddTagsToResource was called with no tag and succeeded
C27_Witness ==
    \E i \in Inv :
        /\ ReturnedNil(i)
        /\ environ.TAGS = Obj(<< >>)
        /\ Ops(i) = CallOrder
        /\ calls[i][3].in.Tags = << >>
        /\ calls[i][3].out.err = ""

(***************************************************************************)
(* C28  Determinism.  Two finished invocations that had the same event,    *)
(* the same environment and, call for call, the same capability responses  *)
(* ended alike and made the same calls with the same arguments, the tag    *)
(* lists compared as sets, whatever was tagged before.                     *)
(***************************************************************************)
SameResponses(i, j) ==
    \A k \in 1 .. Len(calls[i]) :
        k <= Len(calls[j]) => calls[i][k].out = calls[j][k].out

SameCalls(i, j) ==
    /\ Len(calls[i]) = Len(calls[j])
    /\ \A k \in 1 .. Len(calls[i]) :
          /\ calls[i][k].op = calls[j][k].op
          /\ calls[i][k].in.DBInstanceIdentifier = calls[j][k].in.DBInstanceIdentifier
          /\ calls[i][k].in.ResourceName = calls[j][k].in.ResourceName
          /\ TagSetOf(calls[i][k].in.Tags) = TagSetOf(calls[j][k].in.Tags)

C28_Determinism ==
    \A i, j \in Inv :
        (Done(i) /\ Done(j) /\ event[i] = event[j] /\ SameResponses(i, j))
            => result[i] = result[j] /\ SameCalls(i, j)

\* the second invocation tagged the replica the first had tagged already,
\* with the mapping iterated in another order
C28_Witness ==
    \E i, j \in Inv :
        /\ i # j
        /\ ReturnedNil(i) /\ ReturnedNil(j)
        /\ event[i] = FryEvent /\ event[j] = FryEvent
        /\ Len(calls[i]) = 3 /\ Len(calls[j]) = 3
        /\ SameResponses(i, j)
        /\ calls[i][3].in.Tags # calls[j][3].in.Tags
        /\ applied[calls[i][3].in.ResourceName] = 2

(***************************************************************************)
(* C29  Several instances returned.  When DescribeDBInstances returned     *)
(* more than one instance, the first alone decides: without its cluster    *)
(* identifier or its ARN the invocation returned an error; with a cluster  *)
(* other than the expected one it skipped; with the expected one it went   *)
(* on to GetCallerIdentity; whatever the later entries are, and without a  *)
(* second DescribeDBInstances call.                                        *)
(***************************************************************************)
C29_FirstInstanceDecides ==
    \A i \in Inv :
        (/\ Len(calls[i]) >= 1
         /\ calls[i][1].out.err = ""
         /\ Len(calls[i][1].out.DBInstances) >= 2)
            => LET first == calls[i][1].out.DBInstances[1]
               IN  /\ \A k \in 2 .. Len(calls[i]) : calls[i][k].op # "DescribeDBInstances"
                   /\ IF first.DBClusterIdentifier.nil \/ first.DBInstanceArn.nil
                      THEN ReturnedError(i) /\ Len(calls[i]) = 1 /\ clusterID[i] = ""
                      ELSE /\ clusterID[i] = first.DBClusterIdentifier.v
                           /\ IF first.DBClusterIdentifier.v # expectedClusterID[i]
                              THEN ReturnedNil(i) /\ Len(calls[i]) = 1
                              ELSE \/ pc[i] = "identity" /\ Len(calls[i]) = 1
                                   \/ /\ Len(calls[i]) >= 2
                                      /\ calls[i][2].op = "GetCallerIdentity"

\* skipped on the first entry, although the second is in the expected cluster
C29_Witness ==
    \E i \in Inv :
        /\ ReturnedNil(i)
        /\ Len(calls[i]) = 1
        /\ Len(calls[i][1].out.DBInstances) = 2
        /\ calls[i][1].out.DBInstances[1].DBClusterIdentifier = Ptr("momcorp")
        /\ calls[i][1].out.DBInstances[2].DBClusterIdentifier = Ptr(expectedClusterID[i])
====
